---- MODULE Spec2Model ----
(***************************************************************************)
(* Model of src/util.rs of simple-http-server: the helper routines         *)
(* encode_link_path, root_link, enable_string, error_io2iron, now_string,  *)
(* system_time_to_date_time and error_resp.                                *)
(*                                                                         *)
(* A Rust String is modelled as the sequence of its UTF-8 bytes (0..255).  *)
(* HTML text is modelled as a sequence of text pieces (TLA+ strings).      *)
(*                                                                         *)
(* Spec     : one call of one helper; Init draws the helper and its        *)
(*            arguments, the helper's action computes its result.          *)
(* SpecConc : request threads calling the helpers concurrently while the   *)
(*            system clock advances.                                       *)
(***************************************************************************)
EXTENDS Integers, Sequences, FiniteSets, TLC

VARIABLES
    pc, op, arg, ret,        \* the single call of Spec: position, helper, arguments, result
    tpc, top, targ, tret,    \* the same, per request thread, in SpecConc
    clock,                   \* system clock: seconds since the epoch
    tz,                      \* offset of the local time zone, in seconds
    overflow_checks          \* whether the build panics on integer overflow

vars == <<pc, op, arg, ret, tpc, top, targ, tret, clock, tz, overflow_checks>>

seqVars == <<pc, op, arg, ret>>

threadVars == <<tpc, top, targ, tret>>

envVars == <<clock, tz, overflow_checks>>

(***************************************************************************)
(* Bounds of the model.                                                    *)
(***************************************************************************)
\* total number of characters in a generated path
MaxChars == 3
\* number of segments in a generated path
MaxSegs == 3

(***************************************************************************)
(* Reserved-character sets (util.rs 13-22).  An AsciiSet is modelled as    *)
(* the set of the ASCII bytes it holds; add is set insertion.              *)
(***************************************************************************)
add(set, byte) == set \cup {byte}

contains(set, byte) == byte \in set

\* percent_encoding::CONTROLS: C0 controls and DEL
CONTROLS == (0..31) \cup {127}

\* .add(b' ').add(b'"').add(b'<').add(b'>').add(b'`')
FRAGMENT_ENCODE_SET == add(add(add(add(add(CONTROLS, 32), 34), 60), 62), 96)

\* variant: '?' left out of the path set
PATH_ENCODE_SET_no_question == add(add(add(FRAGMENT_ENCODE_SET, 35), 123), 125)

\* .add(b'#').add(b'?').add(b'{').add(b'}')
PATH_ENCODE_SET == add(add(add(add(FRAGMENT_ENCODE_SET, 35), 63), 123), 125)

\* variant: '/' left out of the path-segment set
PATH_SEGMENT_ENCODE_SET_no_slash == add(add(add(PATH_ENCODE_SET, 37), 91), 93)

\* .add(b'/').add(b'%').add(b'[').add(b']')
PATH_SEGMENT_ENCODE_SET == add(add(add(add(PATH_ENCODE_SET, 47), 37), 91), 93)

(***************************************************************************)
(* utf8_percent_encode(s, set).to_string() (util.rs 63).  The encoder       *)
(* walks the bytes of s: a byte that is not ASCII or is in the set yields  *)
(* "%XX"; otherwise the longest run of bytes that need no escape is        *)
(* yielded unchanged.                                                      *)
(***************************************************************************)
should_percent_encode(byte, set) == byte >= 128 \/ contains(set, byte)

\* one uppercase hexadecimal digit as an ASCII byte
hex_digit(d) == IF d < 10 THEN 48 + d ELSE 55 + d

\* variant: lowercase hexadecimal digits
percent_encode_byte_lower(byte) ==
    LET lower(d) == IF d < 10 THEN 48 + d ELSE 87 + d
    IN  <<37, lower(byte \div 16), lower(byte % 16)>>

percent_encode_byte(byte) == <<37, hex_digit(byte \div 16), hex_digit(byte % 16)>>

\* length of the longest prefix of bytes that needs no escape
RECURSIVE unchanged_run(_, _)
unchanged_run(bytes, set) ==
    IF bytes = <<>> \/ should_percent_encode(Head(bytes), set)
    THEN 0
    ELSE 1 + unchanged_run(Tail(bytes), set)

RECURSIVE utf8_percent_encode(_, _)
utf8_percent_encode(bytes, set) ==
    IF bytes = <<>> THEN <<>>
    ELSE IF should_percent_encode(Head(bytes), set)
         THEN percent_encode_byte(Head(bytes)) \o utf8_percent_encode(Tail(bytes), set)
         ELSE LET n == unchanged_run(bytes, set)
              IN  SubSeq(bytes, 1, n)
                    \o utf8_percent_encode(SubSeq(bytes, n + 1, Len(bytes)), set)

\* variant: empty strings are dropped from the join
RECURSIVE join_skip_empty(_, _)
join_skip_empty(strings, sep) ==
    IF strings = <<>> THEN <<>>
    ELSE IF strings[1] = <<>> THEN join_skip_empty(Tail(strings), sep)
    ELSE LET rest == join_skip_empty(Tail(strings), sep)
         IN  IF rest = <<>> THEN strings[1] ELSE strings[1] \o sep \o rest

\* Vec<String>::join(sep)
RECURSIVE join(_, _)
join(strings, sep) ==
    IF strings = <<>> THEN <<>>
    ELSE IF Len(strings) = 1 THEN strings[1]
    ELSE strings[1] \o sep \o join(Tail(strings), sep)

\* variant: the segments are escaped with the path set, which has no '/'
encode_link_path_path_set(path) ==
    join([i \in 1..Len(path) |-> utf8_percent_encode(path[i], PATH_ENCODE_SET)], <<47>>)

\* util.rs 61-66
encode_link_path(path) ==
    join([i \in 1..Len(path) |-> utf8_percent_encode(path[i], PATH_SEGMENT_ENCODE_SET)],
         <<47>>)

(***************************************************************************)
(* Inputs of encode_link_path: paths over a small alphabet of characters   *)
(* (each character is its UTF-8 byte sequence), the paths of the           *)
(* documented examples, and one single-character path per ASCII byte.      *)
(***************************************************************************)
\* 'a', ' ', '#', '/', '%', U+00E9
Alphabet == <<<<97>>, <<32>>, <<35>>, <<47>>, <<37>>, <<195, 169>>>>

\* A path is written as a string of tokens: token c > 0 appends character
\* Alphabet[c] to the last segment, token 0 starts a new segment.
RECURSIVE PathOfTokens(_)
PathOfTokens(tokens) ==
    IF tokens = <<>> THEN <<<<>>>>
    ELSE LET front == PathOfTokens(SubSeq(tokens, 1, Len(tokens) - 1))
             t == tokens[Len(tokens)]
         IN  IF t = 0 THEN Append(front, <<>>)
             ELSE [front EXCEPT ![Len(front)] = @ \o Alphabet[t]]

\* the token strings of at most MaxSegs segments and MaxChars characters
TokenStrings ==
    UNION {{tokens \in [1..n -> 0..Len(Alphabet)] :
               LET seps == Cardinality({i \in 1..n : tokens[i] = 0})
               IN  seps + 1 <= MaxSegs /\ n - seps <= MaxChars}
           : n \in 0..(MaxChars + MaxSegs - 1)}

BoundedPaths == {<<>>} \cup {PathOfTokens(tokens) : tokens \in TokenStrings}

\* [], ["a","b"], ["a b","c#d"], ["%2F"], ["[x]", "{y}"]
ExamplePaths ==
    {<<>>, <<<<97>>, <<98>>>>, <<<<97, 32, 98>>, <<99, 35, 100>>>>,
     <<<<37, 50, 70>>>>, <<<<91, 120, 93>>, <<123, 121, 125>>>>}

AsciiPaths == {<<<<b>>>> : b \in 0..127}

Paths == BoundedPaths \cup ExamplePaths \cup AsciiPaths

(***************************************************************************)
(* HTML text: a sequence of pieces.  A literal of the source is one piece;  *)
(* an interpolated argument is a sequence of one-character pieces.         *)
(***************************************************************************)
\* util.rs 25: the <link rel="shortcut icon" ...> element, kept as one piece
FAVICON_IMAGE == <<"<link rel=\"shortcut icon\" href=\"data:image/png;base64,...\" />">>

\* util.rs 27-32
root_link(baseurl) ==
    <<"<a href=\"">> \o baseurl \o <<"\"><strong>[Root]</strong></a>">>

\* util.rs 57-59
enable_string(value) == IF value THEN "enabled" ELSE "disabled"

(***************************************************************************)
(* error_io2iron (util.rs 68-75).                                          *)
(***************************************************************************)
\* std::io::ErrorKind
ErrorKinds ==
    {"NotFound", "PermissionDenied", "ConnectionRefused", "ConnectionReset",
     "ConnectionAborted", "NotConnected", "AddrInUse", "AddrNotAvailable",
     "BrokenPipe", "AlreadyExists", "WouldBlock", "InvalidInput", "InvalidData",
     "TimedOut", "WriteZero", "Interrupted", "Unsupported", "UnexpectedEof",
     "OutOfMemory", "Other"}

\* iron::status::Status and Status::to_u16
Statuses == {"Ok", "BadRequest", "Forbidden", "NotFound", "InternalServerError"}

to_u16(s) ==
    CASE s = "Ok" -> 200
      [] s = "BadRequest" -> 400
      [] s = "Forbidden" -> 403
      [] s = "NotFound" -> 404
      [] s = "InternalServerError" -> 500

\* variant: the two listed arms exchanged
io_status_swapped(kind) ==
    CASE kind = "PermissionDenied" -> "NotFound"
      [] kind = "NotFound" -> "Forbidden"
      [] OTHER -> "InternalServerError"

\* the match of util.rs 69-73
io_status(kind) ==
    CASE kind = "PermissionDenied" -> "Forbidden"
      [] kind = "NotFound" -> "NotFound"
      [] OTHER -> "InternalServerError"

\* IronError::new(err, status): the error boxed, and a response holding the status
IronError_new(err, status) == [error |-> err, status |-> status]

error_io2iron(err) == IronError_new(err, io_status(err.kind))

IoErrors == [kind : ErrorKinds, desc : {"denied", "missing", "broken"}]

(***************************************************************************)
(* error_resp (util.rs 147-173).                                           *)
(***************************************************************************)
\* format!("{}", n) of an unsigned integer: its decimal digits
RECURSIVE fmt_u16(_)
fmt_u16(n) ==
    LET digit == <<SubSeq("0123456789", (n % 10) + 1, (n % 10) + 1)>>
    IN  IF n < 10 THEN digit ELSE fmt_u16(n \div 10) \o digit

\* headers.set(h): replaces the header of that name
headers_set(headers, name, value) ==
    {h \in headers : h.name # name} \cup {[name |-> name, value |-> value]}

\* headers::ContentType::html()
ContentType_html == [name |-> "Content-Type", value |-> "text/html; charset=utf-8"]

\* Response::with((s, body))
Response_with(s, body) == [status |-> s, body |-> body, headers |-> {}]

\* variant: the message is HTML-escaped
html_escape(text) ==
    [i \in 1..Len(text) |->
        CASE text[i] = "<" -> "&lt;"
          [] text[i] = "&" -> "&amp;"
          [] OTHER -> text[i]]

error_page_escaped(s, msg, baseurl) ==
    <<"<!DOCTYPE html>\n<html>\n<head>\n  <meta charset=\"utf-8\">\n  ">>
      \o FAVICON_IMAGE
      \o <<"\n  <title>Simple HTTP(s) Server</title>\n</head>\n<body>\n  ">>
      \o root_link(baseurl)
      \o <<"\n  ", "<hr />", "\n  <div>[<strong style=color:red;>", "ERROR ">>
      \o fmt_u16(to_u16(s))
      \o <<"</strong>]: ">>
      \o html_escape(msg)
      \o <<"</div>\n</body>\n</html>\n">>

\* variant: the page carries the second of the system clock at which it was rendered
error_page_stamped(s, msg, baseurl) ==
    <<"<!DOCTYPE html>\n<html>\n<head>\n  <meta charset=\"utf-8\">\n  ">>
      \o FAVICON_IMAGE
      \o <<"\n  <title>Simple HTTP(s) Server</title>\n</head>\n<body>\n  ">>
      \o root_link(baseurl)
      \o <<"\n  ", "<hr />", "\n  <div>[<strong style=color:red;>", "ERROR ">>
      \o fmt_u16(to_u16(s))
      \o <<"</strong>]: ">>
      \o msg
      \o <<"</div>\n</body>\n</html>\n">>
      \o fmt_u16(clock % 60)

\* the format! of util.rs 150-169
error_page(s, msg, baseurl) ==
    <<"<!DOCTYPE html>\n<html>\n<head>\n  <meta charset=\"utf-8\">\n  ">>
      \o FAVICON_IMAGE
      \o <<"\n  <title>Simple HTTP(s) Server</title>\n</head>\n<body>\n  ">>
      \o root_link(baseurl)
      \o <<"\n  ", "<hr />", "\n  <div>[<strong style=color:red;>", "ERROR ">>
      \o fmt_u16(to_u16(s))
      \o <<"</strong>]: ">>
      \o msg
      \o <<"</div>\n</body>\n</html>\n">>

error_resp(s, msg, baseurl) ==
    LET resp == Response_with(s, error_page(s, msg, baseurl))
    IN  [resp EXCEPT !.headers =
            headers_set(resp.headers, ContentType_html.name, ContentType_html.value)]

\* length of a generated message or base URL
MaxText == 2

RECURSIVE TextsOf(_, _)
TextsOf(chars, n) ==
    IF n = 0 THEN {<<>>}
    ELSE TextsOf(chars, n - 1)
         \cup {<<c>> \o t : c \in chars, t \in {u \in TextsOf(chars, n - 1) : Len(u) = n - 1}}

Msgs == TextsOf({"a", "<", "&"}, MaxText)

Urls == TextsOf({"/", "a", "\"", "%"}, MaxText)

(***************************************************************************)
(* Time (util.rs 126-145).  A SystemTime is the pair (tv_sec, tv_nsec) of  *)
(* a signed whole-second count and 0 <= tv_nsec < 10^9.  The 64-bit        *)
(* second counts of the program are modelled SecBits wide, which keeps     *)
(* the `as i64` cast and the overflow of the negation.                     *)
(***************************************************************************)
\* width of the signed second count (i64 in the program)
SecBits == 5

\* the calendar accepts seconds in -CalendarSecs..CalendarSecs
CalendarSecs == 12

NANOS_PER_SEC == 1000000000

I64_MIN == -(2 ^ (SecBits - 1))

I64_MAX == (2 ^ (SecBits - 1)) - 1

SubsecSamples == {0, 1, 500000000, 999999999}

SystemTimes == [tv_sec : I64_MIN..I64_MAX, tv_nsec : SubsecSamples]

UNIX_EPOCH == [tv_sec |-> 0, tv_nsec |-> 0]

\* Duration::new(secs, nanos), secs unsigned
Duration(secs, nanos) == [secs |-> secs, nanos |-> nanos]

\* later - earlier, for later >= earlier
sub_timespec(later, earlier) ==
    IF later.tv_nsec >= earlier.tv_nsec
    THEN Duration(later.tv_sec - earlier.tv_sec, later.tv_nsec - earlier.tv_nsec)
    ELSE Duration(later.tv_sec - earlier.tv_sec - 1,
                  later.tv_nsec + NANOS_PER_SEC - earlier.tv_nsec)

timespec_ge(a, b) ==
    a.tv_sec > b.tv_sec \/ (a.tv_sec = b.tv_sec /\ a.tv_nsec >= b.tv_nsec)

\* t.duration_since(earlier): Ok(t - earlier), or Err carrying earlier - t
duration_since(t, earlier) ==
    IF timespec_ge(t, earlier)
    THEN [ok |-> TRUE, dur |-> sub_timespec(t, earlier)]
    ELSE [ok |-> FALSE, dur |-> sub_timespec(earlier, t)]

\* `u as i64`: the unsigned count reinterpreted in two's complement
as_i64(u) == IF u > I64_MAX THEN u - 2 ^ SecBits ELSE u

\* signed arithmetic: the exact result when it fits; otherwise a panic with
\* overflow checks on, and the wrapped result with them off
wrap_i64(x) == ((x - I64_MIN) % (2 ^ SecBits)) + I64_MIN

checked_i64(x, checks) ==
    IF x >= I64_MIN /\ x <= I64_MAX THEN [ok |-> TRUE, v |-> x]
    ELSE IF checks THEN [ok |-> FALSE]
    ELSE [ok |-> TRUE, v |-> wrap_i64(x)]

\* variant: before the epoch the seconds are negated and the remainder kept
signed_pair_naive(t, checks) ==
    LET r == duration_since(t, UNIX_EPOCH)
        sec == as_i64(r.dur.secs)
        nsec == r.dur.nanos
    IN  IF r.ok THEN [ok |-> TRUE, sec |-> sec, nsec |-> nsec]
        ELSE LET neg == checked_i64(-sec, checks)
             IN  IF ~neg.ok THEN [ok |-> FALSE]
                 ELSE [ok |-> TRUE, sec |-> neg.v, nsec |-> nsec]

\* util.rs 131-143: the (sec, nsec) pair given to the calendar conversion
signed_pair(t, checks) ==
    LET r == duration_since(t, UNIX_EPOCH)
        sec == as_i64(r.dur.secs)
        nsec == r.dur.nanos
    IN  IF r.ok THEN [ok |-> TRUE, sec |-> sec, nsec |-> nsec]
        ELSE LET neg == checked_i64(-sec, checks)
             IN  IF ~neg.ok THEN [ok |-> FALSE]
                 ELSE IF nsec = 0 THEN [ok |-> TRUE, sec |-> neg.v, nsec |-> 0]
                 ELSE LET dec == checked_i64(neg.v - 1, checks)
                      IN  IF ~dec.ok THEN [ok |-> FALSE]
                          ELSE [ok |-> TRUE, sec |-> dec.v,
                                nsec |-> NANOS_PER_SEC - nsec]

\* Local.timestamp_opt(sec, nsec): None outside the calendar's range,
\* otherwise the one local timestamp of that instant
timestamp_opt(sec, nsec, offset) ==
    IF sec < -CalendarSecs \/ sec > CalendarSecs \/ nsec >= 2 * NANOS_PER_SEC
    THEN [kind |-> "None"]
    ELSE [kind |-> "Single", dt |-> [secs |-> sec, nsecs |-> nsec, offset |-> offset]]

Panic(why) == [kind |-> "panic", why |-> why]

\* variant: no local time falls back to the epoch
unwrap_or_epoch(local) ==
    CASE local.kind = "Single" -> [kind |-> "value", value |-> local.dt]
      [] local.kind = "None" -> [kind |-> "value", value |-> [secs |-> 0, nsecs |-> 0, offset |-> 0]]
      [] local.kind = "Ambiguous" -> [kind |-> "panic", why |-> "Ambiguous local time"]

\* LocalResult::unwrap
unwrap(local) ==
    CASE local.kind = "Single" -> [kind |-> "value", value |-> local.dt]
      [] local.kind = "None" -> Panic("No such local time")
      [] local.kind = "Ambiguous" -> Panic("Ambiguous local time")

\* util.rs 130-145, with the pair and the calendar's answer kept for inspection
system_time_to_date_time(t, checks, offset) ==
    LET p == signed_pair(t, checks)
    IN  IF ~p.ok
        THEN [out |-> Panic("attempt to negate with overflow"),
              handed |-> <<>>, local |-> <<>>]
        ELSE LET local == timestamp_opt(p.sec, p.nsec, offset)
             IN  [out |-> unwrap(local), handed |-> <<p.sec, p.nsec>>,
                  local |-> <<local>>]

(***************************************************************************)
(* now_string (util.rs 126-128): Local::now() formatted                    *)
(* "%Y-%m-%d %H:%M:%S".  Local::now() reads the system clock (seconds      *)
(* since the epoch) and the local offset.                                  *)
(***************************************************************************)
\* zero-padded decimal of width w
RECURSIVE fmt_pad(_, _)
fmt_pad(n, w) ==
    LET digit == <<SubSeq("0123456789", (n % 10) + 1, (n % 10) + 1)>>
    IN  IF w <= 1 /\ n < 10 THEN digit ELSE fmt_pad(n \div 10, w - 1) \o digit

\* proleptic Gregorian date of a day count since 1970-01-01
civil_from_days(days) ==
    LET z == days + 719468
        era == z \div 146097
        doe == z - era * 146097
        yoe == (doe - doe \div 1460 + doe \div 36524 - doe \div 146096) \div 365
        doy == doe - (365 * yoe + yoe \div 4 - yoe \div 100)
        mp == (5 * doy + 2) \div 153
        d == doy - (153 * mp + 2) \div 5 + 1
        m == IF mp < 10 THEN mp + 3 ELSE mp - 9
        y == yoe + era * 400 + (IF m <= 2 THEN 1 ELSE 0)
    IN  [year |-> y, month |-> m, day |-> d]

now_string(now, offset) ==
    LET local == now + offset
        date == civil_from_days(local \div 86400)
        sod == local % 86400
    IN  fmt_pad(date.year, 4) \o <<"-">> \o fmt_pad(date.month, 2) \o <<"-">>
          \o fmt_pad(date.day, 2) \o <<" ">> \o fmt_pad(sod \div 3600, 2) \o <<":">>
          \o fmt_pad((sod % 3600) \div 60, 2) \o <<":">> \o fmt_pad(sod % 60, 2)

\* readings of the system clock, and local offsets, in seconds
ClockSamples == {0, 59, 86399, 951782400, 1730000000}

TzOffsets == {0, 3600, -18000}

(***************************************************************************)
(* One call of one helper.                                                 *)
(***************************************************************************)
Value(v) == [kind |-> "value", value |-> v]

NoRet == [kind |-> "none"]

Init ==
    /\ pc = "call"
    /\ ret = NoRet
    /\ \/ op = "encode_link_path" /\ arg \in [path : Paths]
       \/ op = "root_link" /\ arg \in [baseurl : Urls]
       \/ op = "enable_string" /\ arg \in [value : BOOLEAN]
       \/ op = "error_io2iron" /\ arg \in [err : IoErrors]
       \/ op = "error_resp" /\ arg \in [s : Statuses, msg : Msgs, baseurl : Urls]
       \/ op = "now_string" /\ arg = <<>>
       \/ op = "system_time_to_date_time" /\ arg \in [t : SystemTimes]
    /\ clock \in (IF op = "now_string" THEN ClockSamples ELSE {0})
    /\ tz \in (IF op \in {"now_string", "system_time_to_date_time"} THEN TzOffsets ELSE {0})
    /\ overflow_checks \in (IF op = "system_time_to_date_time" THEN BOOLEAN ELSE {FALSE})
    /\ tpc = <<>> /\ top = <<>> /\ targ = <<>> /\ tret = <<>>

call_encode_link_path ==
    /\ pc = "call" /\ op = "encode_link_path"
    /\ ret' = Value(encode_link_path(arg.path))
    /\ pc' = "ret"
    /\ UNCHANGED <<op, arg, threadVars, envVars>>

call_root_link ==
    /\ pc = "call" /\ op = "root_link"
    /\ ret' = Value(root_link(arg.baseurl))
    /\ pc' = "ret"
    /\ UNCHANGED <<op, arg, threadVars, envVars>>

call_enable_string ==
    /\ pc = "call" /\ op = "enable_string"
    /\ ret' = Value(enable_string(arg.value))
    /\ pc' = "ret"
    /\ UNCHANGED <<op, arg, threadVars, envVars>>

call_error_io2iron ==
    /\ pc = "call" /\ op = "error_io2iron"
    /\ ret' = Value(error_io2iron(arg.err))
    /\ pc' = "ret"
    /\ UNCHANGED <<op, arg, threadVars, envVars>>

call_error_resp ==
    /\ pc = "call" /\ op = "error_resp"
    /\ ret' = Value(error_resp(arg.s, arg.msg, arg.baseurl))
    /\ pc' = "ret"
    /\ UNCHANGED <<op, arg, threadVars, envVars>>

call_now_string ==
    /\ pc = "call" /\ op = "now_string"
    /\ ret' = Value(now_string(clock, tz))
    /\ pc' = "ret"
    /\ UNCHANGED <<op, arg, threadVars, envVars>>

call_system_time_to_date_time ==
    /\ pc = "call" /\ op = "system_time_to_date_time"
    /\ ret' = system_time_to_date_time(arg.t, overflow_checks, tz)
    /\ pc' = "ret"
    /\ UNCHANGED <<op, arg, threadVars, envVars>>

Next ==
    \/ call_encode_link_path
    \/ call_root_link
    \/ call_enable_string
    \/ call_error_io2iron
    \/ call_error_resp
    \/ call_now_string
    \/ call_system_time_to_date_time

Spec == Init /\ [][Next]_vars

(***************************************************************************)
(* Request threads calling the helpers concurrently.  A call takes its     *)
(* arguments, then computes its result in one step, reading the clock and  *)
(* the local offset at that moment if the helper reads them.               *)
(***************************************************************************)
\* number of request threads
NumThreads == 2

\* number of seconds the clock advances
MaxTicks == 2

Threads == 1..NumThreads

Ops == {"encode_link_path", "root_link", "enable_string", "error_io2iron",
        "now_string", "system_time_to_date_time", "error_resp"}

ConcArgs(o) ==
    CASE o = "encode_link_path" -> [path : {<<<<97>>, <<98>>>>, <<<<97, 32, 98>>, <<47>>>>}]
      [] o = "root_link" -> [baseurl : {<<"/">>, <<"/", "a">>}]
      [] o = "enable_string" -> [value : BOOLEAN]
      [] o = "error_io2iron" -> [err : [kind : {"NotFound", "Other"}, desc : {"missing"}]]
      [] o = "now_string" -> {<<>>}
      [] o = "system_time_to_date_time" ->
             [t : {[tv_sec |-> 1, tv_nsec |-> 0], [tv_sec |-> -2, tv_nsec |-> 500000000]}]
      [] o = "error_resp" -> [s : {"NotFound"}, msg : {<<"a">>, <<"<">>}, baseurl : {<<"/">>}]

\* the result of helper o on arguments a, computed in the current state
Exec(o, a) ==
    CASE o = "encode_link_path" -> Value(encode_link_path(a.path))
      [] o = "root_link" -> Value(root_link(a.baseurl))
      [] o = "enable_string" -> Value(enable_string(a.value))
      [] o = "error_io2iron" -> Value(error_io2iron(a.err))
      [] o = "now_string" -> Value(now_string(clock, tz))
      [] o = "system_time_to_date_time" -> system_time_to_date_time(a.t, overflow_checks, tz)
      [] o = "error_resp" -> Value(error_resp(a.s, a.msg, a.baseurl))

InitConc ==
    /\ pc = "idle" /\ op = "none" /\ arg = <<>> /\ ret = NoRet
    /\ tpc = [t \in Threads |-> "idle"]
    /\ top = [t \in Threads |-> "none"]
    /\ targ = [t \in Threads |-> <<>>]
    /\ tret = [t \in Threads |-> NoRet]
    /\ clock = 0
    /\ tz \in {0, 3600}
    /\ overflow_checks \in BOOLEAN

Call(t) ==
    /\ tpc[t] = "idle"
    /\ \E o \in Ops : \E a \in ConcArgs(o) :
          /\ top' = [top EXCEPT ![t] = o]
          /\ targ' = [targ EXCEPT ![t] = a]
    /\ tpc' = [tpc EXCEPT ![t] = "called"]
    /\ UNCHANGED <<tret, seqVars, envVars>>

Return(t) ==
    /\ tpc[t] = "called"
    /\ tret' = [tret EXCEPT ![t] = Exec(top[t], targ[t])]
    /\ tpc' = [tpc EXCEPT ![t] = "returned"]
    /\ UNCHANGED <<top, targ, seqVars, envVars>>

\* the request is done; the thread waits for the next one
Finish(t) ==
    /\ tpc[t] = "returned"
    /\ tpc' = [tpc EXCEPT ![t] = "idle"]
    /\ top' = [top EXCEPT ![t] = "none"]
    /\ targ' = [targ EXCEPT ![t] = <<>>]
    /\ tret' = [tret EXCEPT ![t] = NoRet]
    /\ UNCHANGED <<seqVars, envVars>>

\* the system clock advances
Tick ==
    /\ clock < MaxTicks
    /\ clock' = clock + 1
    /\ UNCHANGED <<tz, overflow_checks, seqVars, threadVars>>

NextConc ==
    \/ \E t \in Threads : Call(t)
    \/ \E t \in Threads : Return(t)
    \/ \E t \in Threads : Finish(t)
    \/ Tick

SpecConc == InitConc /\ [][NextConc]_vars

(***************************************************************************)
(* Properties.                                                             *)
(***************************************************************************)
Returned(o) == pc = "ret" /\ op = o

\* the path-segment reserved set, byte by byte: controls 0x00-0x1F and 0x7F,
\* space " < > ` # ? { } / % [ ]
ReservedRef == (0..31) \cup {127, 32, 34, 60, 62, 96, 35, 63, 123, 125, 47, 37, 91, 93}

\* "0123456789ABCDEF"
HexUpper == <<48, 49, 50, 51, 52, 53, 54, 55, 56, 57, 65, 66, 67, 68, 69, 70>>

RefEscape(b) ==
    IF b \in ReservedRef \/ b >= 128
    THEN <<37, HexUpper[(b \div 16) + 1], HexUpper[(b % 16) + 1]>>
    ELSE <<b>>

RECURSIVE RefSegment(_)
RefSegment(seg) ==
    IF seg = <<>> THEN <<>>
    ELSE RefSegment(SubSeq(seg, 1, Len(seg) - 1)) \o RefEscape(seg[Len(seg)])

RECURSIVE RefPath(_)
RefPath(S) ==
    IF S = <<>> THEN <<>>
    ELSE IF Len(S) = 1 THEN RefSegment(S[1])
    ELSE RefPath(SubSeq(S, 1, Len(S) - 1)) \o <<47>> \o RefSegment(S[Len(S)])

\* C1: encode_link_path(S) is the reference result: every segment rewritten
\* byte by byte (a reserved byte or a byte >= 0x80 becomes %XX in uppercase
\* hex, any other byte is copied), the segments joined by one '/' in order;
\* [] gives "", ["a","b"] gives "a/b", ["a b","c#d"] gives "a%20b/c%23d".
C1_EncodeIsReference ==
    Returned("encode_link_path") =>
        /\ ret.kind = "value"
        /\ ret.value = RefPath(arg.path)
        /\ arg.path = <<>> => ret.value = <<>>
        /\ arg.path = <<<<97>>, <<98>>>> => ret.value = <<97, 47, 98>>
        /\ arg.path = <<<<97, 32, 98>>, <<99, 35, 100>>>>
              => ret.value = <<97, 37, 50, 48, 98, 47, 99, 37, 50, 51, 100>>

C1_Witness ==
    /\ Returned("encode_link_path")
    /\ arg.path = <<<<97, 32, 98>>, <<99, 35, 100>>>>
    /\ ret.value = <<97, 37, 50, 48, 98, 47, 99, 37, 50, 51, 100>>

CountOf(seq, b) == Cardinality({i \in DOMAIN seq : seq[i] = b})

IsHexUpper(b) == \E k \in DOMAIN HexUpper : HexUpper[k] = b

\* C2: the output holds exactly n-1 raw '/' for n >= 1 segments (none for
\* n = 0), every '%' starts a %XX escape, and no other reserved byte and
\* no byte >= 0x80 occurs raw.
C2_NoRawReservedByte ==
    Returned("encode_link_path") =>
        LET out == ret.value
            n == Len(arg.path)
        IN  /\ CountOf(out, 47) = (IF n = 0 THEN 0 ELSE n - 1)
            /\ \A i \in DOMAIN out :
                  out[i] = 37 => /\ i + 2 <= Len(out)
                                 /\ IsHexUpper(out[i + 1])
                                 /\ IsHexUpper(out[i + 2])
            /\ \A i \in DOMAIN out :
                  (out[i] \in ReservedRef \/ out[i] >= 128) => out[i] \in {47, 37}

\* a path with a literal '/', a literal '%' and an empty segment
C2_Witness ==
    /\ Returned("encode_link_path")
    /\ arg.path = <<<<47>>, <<>>, <<37>>>>
    /\ ret.value = <<37, 50, 70, 47, 47, 37, 50, 53>>

\* the pieces of s between the raw occurrences of sep (str::split)
RECURSIVE Split(_, _)
Split(s, sep) ==
    IF \A i \in DOMAIN s : s[i] # sep THEN <<s>>
    ELSE LET k == CHOOSE i \in DOMAIN s : s[i] = sep /\ \A j \in 1..(i - 1) : s[j] # sep
         IN  <<SubSeq(s, 1, k - 1)>> \o Split(SubSeq(s, k + 1, Len(s)), sep)

HexValue(b) ==
    CASE b >= 48 /\ b <= 57 -> b - 48
      [] b >= 65 /\ b <= 70 -> b - 55
      [] b >= 97 /\ b <= 102 -> b - 87
      [] OTHER -> -1

\* percent-decoding: %XX becomes the byte XX, anything else is copied
RECURSIVE PercentDecode(_)
PercentDecode(s) ==
    IF s = <<>> THEN <<>>
    ELSE IF s[1] = 37 /\ Len(s) >= 3 /\ HexValue(s[2]) >= 0 /\ HexValue(s[3]) >= 0
         THEN <<16 * HexValue(s[2]) + HexValue(s[3])>> \o PercentDecode(SubSeq(s, 4, Len(s)))
         ELSE <<s[1]>> \o PercentDecode(Tail(s))

RoundTrip(encoded) ==
    LET pieces == Split(encoded, 47)
    IN  [i \in 1..Len(pieces) |-> PercentDecode(pieces[i])]

HasSlash(S) == \E i \in DOMAIN S : \E j \in DOMAIN S[i] : S[i][j] = 47

\* C5 as stated: for every S without a literal '/', the empty sequence
\* included, splitting the output at '/' and decoding each piece gives S.
C5_RoundTripAll ==
    (Returned("encode_link_path") /\ ~HasSlash(arg.path))
        => RoundTrip(ret.value) = arg.path

\* C5 amended: for every non-empty S without a literal '/', sequences with
\* empty segments included, splitting the output at '/' and decoding each
\* piece gives S.
C5_RoundTripNonEmpty ==
    (Returned("encode_link_path") /\ ~HasSlash(arg.path) /\ arg.path # <<>>)
        => RoundTrip(ret.value) = arg.path

\* an empty segment and a segment holding a literal '%'
C5_Witness ==
    /\ Returned("encode_link_path")
    /\ arg.path = <<<<97>>, <<>>, <<37, 195, 169>>>>
    /\ RoundTrip(ret.value) = arg.path

\* C9 as stated: when a segment holds a literal '/', the round trip does
\* not give S back.
C9_SlashBreaksRoundTrip ==
    (Returned("encode_link_path") /\ HasSlash(arg.path))
        => RoundTrip(ret.value) # arg.path

\* C9 amended: when a segment holds a literal '/', the '/' is escaped as
\* %2F, the output splits into as many pieces as S has segments, and the
\* round trip gives S back.
C9_SlashSurvivesRoundTrip ==
    (Returned("encode_link_path") /\ HasSlash(arg.path))
        => /\ Len(Split(ret.value, 47)) = Len(arg.path)
           /\ RoundTrip(ret.value) = arg.path

C9_Witness ==
    /\ Returned("encode_link_path")
    /\ arg.path = <<<<97, 47, 97>>>>
    /\ ret.value = <<97, 37, 50, 70, 97>>
    /\ RoundTrip(ret.value) = <<<<97, 47, 97>>>>

\* C7: fragment set < path set < path-segment set, strictly; the path layer
\* adds exactly # ? { } and the path-segment layer exactly / % [ ].
C7_SetsStrictlyLayered ==
    pc \in {"call", "ret"} =>
    /\ FRAGMENT_ENCODE_SET \subseteq PATH_ENCODE_SET
    /\ PATH_ENCODE_SET \ FRAGMENT_ENCODE_SET # {}
    /\ PATH_ENCODE_SET \subseteq PATH_SEGMENT_ENCODE_SET
    /\ PATH_SEGMENT_ENCODE_SET \ PATH_ENCODE_SET # {}
    /\ PATH_ENCODE_SET \ FRAGMENT_ENCODE_SET = {35, 63, 123, 125}
    /\ PATH_SEGMENT_ENCODE_SET \ PATH_ENCODE_SET = {47, 37, 91, 93}

\* a call whose segments hold bytes of the two added layers, all escaped
C7_Witness ==
    /\ Returned("encode_link_path")
    /\ arg.path = <<<<91, 120, 93>>, <<123, 121, 125>>>>
    /\ ret.value = <<37, 53, 66, 120, 37, 53, 68, 47, 37, 55, 66, 121, 37, 55, 68>>

\* C4: permission denied gives 403, not found gives 404, every other kind
\* gives 500; every kind gets exactly one of these statuses.
C4_IoErrorStatus ==
    Returned("error_io2iron") =>
        LET kind == arg.err.kind
            code == to_u16(ret.value.status)
        IN  /\ ret.kind = "value"
            /\ code \in {403, 404, 500}
            /\ kind = "PermissionDenied" => code = 403
            /\ kind = "NotFound" => code = 404
            /\ kind \notin {"PermissionDenied", "NotFound"} => code = 500

C4_Witness ==
    /\ Returned("error_io2iron")
    /\ arg.err.kind = "TimedOut"
    /\ to_u16(ret.value.status) = 500

\* C3: the pair (sec, nsec) given to the calendar conversion has
\* 0 <= nsec < 10^9 and sec * 10^9 + nsec equal to the signed offset of t
\* from the epoch in nanoseconds (tv_sec * 10^9 + tv_nsec), sec being a value
\* of the signed second type; the epoch gives (0, 0), 1 s before it (-1, 0),
\* 1.5 s before it (-2, 500000000).
C3_SignedPairIsOffset ==
    Returned("system_time_to_date_time") =>
        /\ ret.handed # <<>> =>
              LET sec == ret.handed[1]
                  nsec == ret.handed[2]
                  d == sec - arg.t.tv_sec
              IN  /\ 0 <= nsec /\ nsec < NANOS_PER_SEC
                  /\ sec >= I64_MIN /\ sec <= I64_MAX
                  /\ d \in {-1, 0, 1}
                  /\ d * NANOS_PER_SEC + nsec = arg.t.tv_nsec
        /\ arg.t = [tv_sec |-> 0, tv_nsec |-> 0] => ret.handed = <<0, 0>>
        /\ arg.t = [tv_sec |-> -1, tv_nsec |-> 0] => ret.handed = <<-1, 0>>
        /\ arg.t = [tv_sec |-> -2, tv_nsec |-> 500000000] => ret.handed = <<-2, 500000000>>

\* 1.5 s before the epoch
C3_Witness ==
    /\ Returned("system_time_to_date_time")
    /\ arg.t = [tv_sec |-> -2, tv_nsec |-> 500000000]
    /\ ret.handed = <<-2, 500000000>>

\* C10: the call never returns an error value; when the calendar conversion
\* gives exactly one local timestamp, that timestamp is returned, and in
\* every other case (none, ambiguous) the call panics.
C10_SingleOrPanic ==
    /\ Returned("system_time_to_date_time") =>
          /\ ret.out.kind \in {"value", "panic"}
          /\ ret.local # <<>> =>
                IF ret.local[1].kind = "Single"
                THEN ret.out = [kind |-> "value", value |-> ret.local[1].dt]
                ELSE ret.out.kind = "panic"
    /\ unwrap([kind |-> "None"]).kind = "panic"
    /\ unwrap([kind |-> "Ambiguous"]).kind = "panic"

\* an instant outside the calendar's range: the conversion gives none
C10_Witness ==
    /\ Returned("system_time_to_date_time")
    /\ ret.local = <<[kind |-> "None"]>>
    /\ ret.out.kind = "panic"

\* whether part occurs in body starting at position i
OccursAt(body, part, i) ==
    /\ i >= 1
    /\ i + Len(part) - 1 <= Len(body)
    /\ SubSeq(body, i, i + Len(part) - 1) = part

\* whether the parts occur in body one after the other, without overlap,
\* from position `from` on
RECURSIVE InOrder(_, _, _)
InOrder(body, parts, from) ==
    IF parts = <<>> THEN TRUE
    ELSE \E i \in from..Len(body) :
            /\ OccursAt(body, Head(parts), i)
            /\ InOrder(body, Tail(parts), i + Len(Head(parts)))

CodeText(s) ==
    CASE s = "Ok" -> <<"2", "0", "0">>
      [] s = "BadRequest" -> <<"4", "0", "0">>
      [] s = "Forbidden" -> <<"4", "0", "3">>
      [] s = "NotFound" -> <<"4", "0", "4">>
      [] s = "InternalServerError" -> <<"5", "0", "0">>

\* C6: the response of error_resp(s, msg, b) has status s, the HTML content
\* type, and the template body: the favicon element, the anchor with b as
\* its href, the rule, "ERROR " and the code of s, then msg, in that order,
\* b and msg copied as they are; the call cannot fail.
C6_ErrorResponse ==
    Returned("error_resp") =>
        /\ ret.kind = "value"
        /\ ret.value.status = arg.s
        /\ ret.value.headers = {[name |-> "Content-Type", value |-> "text/html; charset=utf-8"]}
        /\ Len(ret.value.body) = 14 + Len(arg.baseurl) + Len(arg.msg)
        /\ InOrder(ret.value.body,
                   << FAVICON_IMAGE,
                      <<"<a href=\"">> \o arg.baseurl \o <<"\"><strong>[Root]</strong></a>">>,
                      <<"<hr />">>,
                      <<"ERROR ">> \o CodeText(arg.s) \o <<"</strong>]: ">>
                          \o arg.msg \o <<"</div>\n</body>\n</html>\n">> >>,
                   1)

\* a message and a base URL holding characters special in HTML and in URLs
C6_Witness ==
    /\ Returned("error_resp")
    /\ arg.s = "NotFound"
    /\ arg.msg = <<"<", "&">>
    /\ arg.baseurl = <<"\"", "%">>
    /\ ret.value.status = "NotFound"

PureOps == {"encode_link_path", "root_link", "enable_string", "error_io2iron", "error_resp"}

====
